---- MODULE Spec2Model ----
(***************************************************************************)
(* A model of src/types.ts of intelephense: BinarySearch, SuffixArray,     *)
(* Tree.traverse with its visitors, Tree.find, Tree.addChild/removeChild,  *)
(* Debounce and Event, and of the symbol reader's name resolution.  Array  *)
(* indices are the 0-based indices of the source; a TLA+ sequence s holds  *)
(* the element of index i at s[i + 1].                                     *)
(***************************************************************************)
EXTENDS Integers, Sequences, FiniteSets, TLC

\* ------------------------------------------------------------------ bounds
\* longest sorted array handed to a BinarySearch
MaxLen == 4
\* the elements and probes of the BinarySearch runs are 0..MaxVal
MaxVal == 3
\* longest item name; the keys of an item are the suffixes of its name
MaxKeyLen == 2
\* most items ever passed to add / addMany in one run of the SuffixArray
MaxAdds == 2
\* most nodes of a traversed tree
MaxNodes == 4
\* most component visitors handed to a MultiVisitor
MaxComponents == 2
\* most calls and timer expiries in one run of a Debounce
MaxDebounceOps == 4
\* most subscribe calls on an Event
MaxSubscriptions == 3
\* most calls of unsubscribe functions of an Event
MaxUnsubscribes == 3
\* most segments of a name written in a source document
MaxSegments == 2
\* the nodes constructed for a run of addChild / addChildren / removeChild
MaxEditNodes == 3
\* most addChild / addChildren / removeChild calls in one run
MaxEditOps == 3
\* longest array handed to addChildren
MaxArgLen == 2

VARIABLES
    sortedArray,    \* BinarySearch._sortedArray
    bsPc,           \* "idle", "search" (inside the loop of _search), "done"
    bsOp,           \* the public method last called: "none", "find", "rank", "range"
    bsProbe,        \* the probe(s) the comparators of that call close over
    bsLeft,         \* _search: left
    bsRight,        \* _search: right
    bsResult,       \* the element find returned (<<>> for null), the array
                    \* range returned
    bsRank,         \* the index rank returned
    nodeArray,      \* SuffixArray._nodeArray: sequence of [key, items]
    caseSensitive,  \* SuffixArray._caseSensitive
    present,        \* history: the items added and not removed since
    addCount,       \* history: how many items were passed to add so far
    saLast,         \* history: the last call; for remove and match its argument,
                    \* for match what it returned
    treeChildren,   \* Tree._children of every node: treeChildren[t] is a sequence
    ownPre,         \* visitor.hasOwnProperty('preOrder')
    ownPost,        \* visitor.hasOwnProperty('postOrder')
    ownIn,          \* visitor.hasOwnProperty('inOrder')
    components,     \* the visitors handed to new MultiVisitor(visitors): component
                    \* c answers false to "descend?" at node components[c], and
                    \* true everywhere when that is 0
    mvPc,           \* "none": the visitor is a plain object; else the visitor is
                    \* new MultiVisitor(components): "new", "constructed", "thrown"
    haltAt,         \* 0, or the number of the callback that triggered
                    \* visitor.haltTraverse
    visited,        \* history: the nodes traverse was called on
    compTrace,      \* history: the callbacks made on the components
    findPred,       \* Tree.find: the nodes its predicate holds on
    fStart,         \* the node find is called on
    fPc,            \* "idle", "running" (in breadthFirstTraverse's loop), "done"
    fQueue,         \* breadthFirstTraverse's local stack
    fNode,          \* find's local node, 0 for undefined
    fEvaluated,     \* history: the nodes the predicate was evaluated on
    dbTimer,        \* Debounce._timer: 0 for undefined or 0, else the id that
                    \* setTimeout returned
    dbPending,      \* the timers of the runtime that are set and not yet run
    dbLastEvent,    \* Debounce._lastEvent
    dbCalls,        \* history: what the handler received, one entry per invocation
    dbThrown,       \* history: how many calls ended in a TypeError
    dbOps,          \* history: the steps of the run, in order
    dbBefore,       \* history: dbPending and dbCalls as the last step found them
    evSubscribed,   \* Event._subscribed; handler h is the one passed to the
                    \* h-th subscribe call
    evIndex,        \* the index captured by the unsubscribe function of each handler
    evUnsubscribed, \* history: the handlers whose unsubscribe function was called
    evUnsubCalls,   \* history: how many unsubscribe calls were made
    evLast,         \* history: the last call, "new", "subscribe", "unsubscribe", "trigger"
    evInvoked,      \* history: the handlers the last trigger invoked, in order
    srSrc,          \* the document read: namespace N; use U; class C { use T; }
    srPc,           \* the statement the symbol reader is about to read
    srNamespace,    \* the active namespace, a sequence of segments
    srAliases,      \* the use-declared class aliases: [alias, target]
    srChildren,     \* the children of the root symbol of the document
    edChildren,     \* _children of every constructed node
    edParent,       \* parent of every constructed node
    edOps,          \* how many addChild / addChildren / removeChild calls were made
    tPc,            \* "idle", "running" (inside root.traverse(visitor)), "done"
    stack,          \* the activations of traverse, outermost first
    trace           \* history: the callbacks made on the visitor, in order

bsVars == <<sortedArray, bsPc, bsOp, bsProbe, bsLeft, bsRight, bsResult, bsRank>>

saVars == <<nodeArray, caseSensitive, present, addCount, saLast>>

treeVars == <<treeChildren, ownPre, ownPost, ownIn, components, mvPc, haltAt,
              visited, compTrace, tPc, stack, trace>>

findVars == <<findPred, fStart, fPc, fQueue, fNode, fEvaluated>>
dbVars == <<dbTimer, dbPending, dbLastEvent, dbCalls, dbThrown, dbOps, dbBefore>>
evVars == <<evSubscribed, evIndex, evUnsubscribed, evUnsubCalls, evLast, evInvoked>>
srVars == <<srSrc, srPc, srNamespace, srAliases, srChildren>>
edVars == <<edChildren, edParent, edOps>>
vars == <<bsVars, saVars, treeVars, findVars, dbVars, evVars, srVars, edVars>>

\* what the runs of each component leave alone
notBsVars == <<saVars, treeVars, findVars, dbVars, evVars, srVars, edVars>>
notSaVars == <<bsVars, treeVars, findVars, dbVars, evVars, srVars, edVars>>
notTreeVars == <<bsVars, saVars, findVars, dbVars, evVars, srVars, edVars>>
notFindVars == <<bsVars, saVars, treeVars, dbVars, evVars, srVars, edVars>>
notDbVars == <<bsVars, saVars, treeVars, findVars, evVars, srVars, edVars>>
notEvVars == <<bsVars, saVars, treeVars, findVars, dbVars, srVars, edVars>>
notSrVars == <<bsVars, saVars, treeVars, findVars, dbVars, evVars, edVars>>
notEdVars == <<bsVars, saVars, treeVars, findVars, dbVars, evVars, srVars>>

\* ------------------------------------------------------------ helpers
\* Array.prototype.slice(start, end) for 0 <= start: elements start .. end-1,
\* end clamped to the length, empty when end <= start.
Slice(arr, start, end) ==
    LET e == IF end > Len(arr) THEN Len(arr) ELSE end
    IN  IF e <= start THEN <<>> ELSE SubSeq(arr, start + 1, e)

Sign(x) == IF x < 0 THEN -1 ELSE IF x > 0 THEN 1 ELSE 0

\* ------------------------------------------------------- BinarySearch
\* A comparator (n: T) => number closing over probe k, three-way: negative when
\* the element n sorts before k, zero when equal, positive when after.
ProbeCompare(k, n) == Sign(n - k)

\* An upper-bound comparator as range's callers pass it: never zero,
\* negative while n is still within the bound hi, positive beyond it.
UpperCompare(hi, n) == IF n <= hi THEN -1 ELSE 1

\* the results compare(this._sortedArray[i]) for every index
CompareSeq(arr, k) == [i \in 1..Len(arr) |-> ProbeCompare(k, arr[i])]
UpperCompareSeq(arr, hi) == [i \in 1..Len(arr) |-> UpperCompare(hi, arr[i])]

\* mutant: the two branches of the comparison swapped
SearchIterSwapped(cs, left, right) ==
    IF left > right
    THEN [done |-> TRUE, left |-> left, right |-> right,
          rank |-> left, isExactMatch |-> FALSE]
    ELSE LET mid == (left + right) \div 2
             compareResult == cs[mid + 1]
         IN  IF compareResult > 0
             THEN [done |-> FALSE, left |-> mid + 1, right |-> right,
                   rank |-> 0, isExactMatch |-> FALSE]
             ELSE IF compareResult < 0
             THEN [done |-> FALSE, left |-> left, right |-> mid - 1,
                   rank |-> 0, isExactMatch |-> FALSE]
             ELSE [done |-> TRUE, left |-> left, right |-> right,
                   rank |-> mid, isExactMatch |-> TRUE]

\* One iteration of the while (true) loop of _search; cs[i + 1] is
\* compare(this._sortedArray[i]).  done: the loop reached a break.
SearchIter(cs, left, right) ==
    IF left > right
    THEN [done |-> TRUE, left |-> left, right |-> right,
          rank |-> left, isExactMatch |-> FALSE]
    ELSE LET mid == (left + right) \div 2
             compareResult == cs[mid + 1]
         IN  IF compareResult < 0
             THEN [done |-> FALSE, left |-> mid + 1, right |-> right,
                   rank |-> 0, isExactMatch |-> FALSE]
             ELSE IF compareResult > 0
             THEN [done |-> FALSE, left |-> left, right |-> mid - 1,
                   rank |-> 0, isExactMatch |-> FALSE]
             ELSE [done |-> TRUE, left |-> left, right |-> right,
                   rank |-> mid, isExactMatch |-> TRUE]

RECURSIVE SearchLoop(_, _, _)
SearchLoop(cs, left, right) ==
    LET r == SearchIter(cs, left, right)
    IN  IF r.done
        THEN [rank |-> r.rank, isExactMatch |-> r.isExactMatch]
        ELSE SearchLoop(cs, r.left, r.right)

\* _search(compare, left): right starts at length - 1
Search(cs, left) == SearchLoop(cs, left, Len(cs) - 1)

\* find(compare): the element at the rank of an exact match, else null;
\* <<x>> is the element x, <<>> is null
BS_find(arr, cs) ==
    LET result == Search(cs, 0)
    IN  IF result.isExactMatch THEN <<arr[result.rank + 1]>> ELSE <<>>

\* rank(compare)
BS_rank(cs) == Search(cs, 0).rank

\* range(compareLower, compareUpper)
BS_range(arr, csLower, csUpper) ==
    LET rankLower == BS_rank(csLower)
    IN  Slice(arr, rankLower, Search(csUpper, rankLower + 1).rank)

\* --------------------------------------------- BinarySearch: the runs
Vals == 0..MaxVal

IsSorted(arr) == \A i \in 1..Len(arr) - 1 : arr[i] <= arr[i + 1]

SortedArrays ==
    UNION {{arr \in [1..n -> Vals] : IsSorted(arr)} : n \in 0..MaxLen}

NoProbe == [k |-> 0, lo |-> 0, hi |-> 0]

BSInit ==
    /\ sortedArray \in SortedArrays
    /\ bsPc = "idle"
    /\ bsOp = "none"
    /\ bsProbe = NoProbe
    /\ bsLeft = 0
    /\ bsRight = 0
    /\ bsResult = <<>>
    /\ bsRank = 0

\* find(compare) is called: _search starts with left = 0, right = length - 1
FindCall(k) ==
    /\ bsPc \in {"idle", "done"}
    /\ bsPc' = "search"
    /\ bsOp' = "find"
    /\ bsProbe' = [NoProbe EXCEPT !.k = k]
    /\ bsLeft' = 0
    /\ bsRight' = Len(sortedArray) - 1
    /\ bsResult' = <<>>
    /\ UNCHANGED <<sortedArray, bsRank, notBsVars>>

\* one iteration of the loop of _search under find; at the break find returns
FindSearchStep ==
    /\ bsPc = "search"
    /\ LET r == SearchIter(CompareSeq(sortedArray, bsProbe.k), bsLeft, bsRight)
       IN  IF r.done
           THEN /\ bsPc' = "done"
                /\ bsResult' = IF r.isExactMatch
                               THEN <<sortedArray[r.rank + 1]>> ELSE <<>>
                /\ UNCHANGED <<bsLeft, bsRight>>
           ELSE /\ bsLeft' = r.left
                /\ bsRight' = r.right
                /\ UNCHANGED <<bsPc, bsResult>>
    /\ UNCHANGED <<sortedArray, bsOp, bsProbe, bsRank, notBsVars>>

\* rank(compare), run to its return
RankCall(k) ==
    /\ bsPc \in {"idle", "done"}
    /\ bsPc' = "done"
    /\ bsOp' = "rank"
    /\ bsProbe' = [NoProbe EXCEPT !.k = k]
    /\ bsRank' = BS_rank(CompareSeq(sortedArray, k))
    /\ UNCHANGED <<sortedArray, bsLeft, bsRight, bsResult, notBsVars>>

\* range(compareLower, compareUpper), run to its return
RangeCall(lo, hi) ==
    /\ bsPc \in {"idle", "done"}
    /\ bsPc' = "done"
    /\ bsOp' = "range"
    /\ bsProbe' = [NoProbe EXCEPT !.lo = lo, !.hi = hi]
    /\ bsResult' = BS_range(sortedArray, CompareSeq(sortedArray, lo),
                            UpperCompareSeq(sortedArray, hi))
    /\ UNCHANGED <<sortedArray, bsLeft, bsRight, bsRank, notBsVars>>

BSFind == \E k \in Vals : FindCall(k)
BSRank == \E k \in Vals : RankCall(k)
BSRange == \E lo \in Vals : \E hi \in {h \in Vals : lo <= h} : RangeCall(lo, hi)

BSNext == BSFind \/ FindSearchStep \/ BSRank \/ BSRange


\* ---------------------------------------------------------- strings
\* A string is a sequence of characters: 1 is a, 2 is A, 3 is b (4 would be B).
Chars == 1..3
Letter(c) == (c + 1) \div 2
IsUpper(c) == c % 2 = 0
ToLowerChar(c) == IF IsUpper(c) THEN c - 1 ELSE c

\* String.prototype.toLowerCase
ToLowerCase(text) == [i \in 1..Len(text) |-> ToLowerChar(text[i])]

\* key.slice(0, text.length) === text
HasPrefix(key, text) ==
    /\ Len(text) <= Len(key)
    /\ \A i \in 1..Len(text) : key[i] = text[i]

\* three-way lexicographic comparison of two sequences of numbers
LexCompare(x, y) ==
    LET n == IF Len(x) < Len(y) THEN Len(x) ELSE Len(y)
        diffs == {i \in 1..n : x[i] # y[i]}
    IN  IF diffs = {}
        THEN Sign(Len(x) - Len(y))
        ELSE LET i == CHOOSE d \in diffs : \A e \in diffs : d <= e
             IN  Sign(x[i] - y[i])

\* new Intl.Collator().compare: the letters decide first (primary strength);
\* between strings of the same letters the case decides, lower case first.
CollatorCompare(a, b) ==
    LET primary == LexCompare([i \in 1..Len(a) |-> Letter(a[i])],
                              [i \in 1..Len(b) |-> Letter(b[i])])
    IN  IF primary # 0
        THEN primary
        ELSE LexCompare([i \in 1..Len(a) |-> IF IsUpper(a[i]) THEN 1 ELSE 0],
                        [i \in 1..Len(b) |-> IF IsUpper(b[i]) THEN 1 ELSE 0])

\* ------------------------------------------------- sequence helpers
\* Array.prototype.splice(index, 0, x)
InsertAt(arr, index, x) ==
    SubSeq(arr, 1, index) \o <<x>> \o SubSeq(arr, index + 1, Len(arr))

\* Array.prototype.splice(index, 1)
RemoveAt(arr, index) ==
    SubSeq(arr, 1, index) \o SubSeq(arr, index + 2, Len(arr))

\* Array.prototype.indexOf: the first index holding x, or -1
IndexOf(arr, x) ==
    LET at == {i \in 1..Len(arr) : arr[i] = x}
    IN  IF at = {} THEN -1
        ELSE (CHOOSE i \in at : \A j \in at : i <= j) - 1

\* -------------------------------------------------------- SuffixArray
\* An item is identified by its name.  The key-generation function handed to
\* the constructor yields every suffix of the name, longest first.
Names == UNION {[1..n -> Chars] : n \in 1..MaxKeyLen}

SuffixDelegate(item) ==
    [n \in 1..Len(item) |-> SubSeq(item, n, Len(item))]

\* the comparator (n) => collator.compare(text, n.key), at every node
KeyCompareSeq(nodes, text) ==
    [i \in 1..Len(nodes) |-> CollatorCompare(text, nodes[i].key)]

\* _nodeFind(text): <<i>> for the node found at index i, <<>> for null
SA_nodeFind(nodes, cs, text) ==
    LET lcText == IF cs THEN text ELSE ToLowerCase(text)
        cmp == KeyCompareSeq(nodes, lcText)
        result == Search(cmp, 0)
    IN  IF BS_find(nodes, cmp) # <<>> THEN <<result.rank>> ELSE <<>>

\* _insertNode(node)
SA_insertNode(nodes, node) ==
    LET rank == BS_rank(KeyCompareSeq(nodes, node.key))
    IN  InsertAt(nodes, rank, node)

\* _deleteNode(node), node being the object at index at: it is spliced out
\* only when the element at its rank is that very object
SA_deleteNode(nodes, at) ==
    LET rank == BS_rank(KeyCompareSeq(nodes, nodes[at + 1].key))
    IN  IF rank = at THEN RemoveAt(nodes, rank) ELSE nodes

\* the body of the loop of add, for one suffix
SA_addSuffix(nodes, cs, item, suffix) ==
    LET node == SA_nodeFind(nodes, cs, suffix)
    IN  IF node # <<>>
        THEN [nodes EXCEPT ![node[1] + 1].items = Append(@, item)]
        ELSE SA_insertNode(nodes, [key |-> suffix, items |-> <<item>>])

RECURSIVE SA_addFrom(_, _, _, _, _)
SA_addFrom(nodes, cs, item, suffixes, n) ==
    IF n > Len(suffixes)
    THEN nodes
    ELSE SA_addFrom(SA_addSuffix(nodes, cs, item, suffixes[n]),
                    cs, item, suffixes, n + 1)

\* add(item)
SA_add(nodes, cs, item) == SA_addFrom(nodes, cs, item, SuffixDelegate(item), 1)

\* the body of the loop of remove, for one suffix
SA_removeSuffix(nodes, cs, item, suffix) ==
    LET node == SA_nodeFind(nodes, cs, suffix)
    IN  IF node = <<>>
        THEN nodes
        ELSE LET at == node[1]
                 i == IndexOf(nodes[at + 1].items, item)
             IN  IF i = -1
                 THEN nodes
                 ELSE LET spliced == [nodes EXCEPT ![at + 1].items = RemoveAt(@, i)]
                      IN  IF Len(spliced[at + 1].items) = 0
                          THEN SA_deleteNode(spliced, at)
                          ELSE spliced

RECURSIVE SA_removeFrom(_, _, _, _, _)
SA_removeFrom(nodes, cs, item, suffixes, n) ==
    IF n > Len(suffixes)
    THEN nodes
    ELSE SA_removeFrom(SA_removeSuffix(nodes, cs, item, suffixes[n]),
                       cs, item, suffixes, n + 1)

\* remove(item)
SA_remove(nodes, cs, item) ==
    SA_removeFrom(nodes, cs, item, SuffixDelegate(item), 1)

\* addMany(items)
RECURSIVE SA_addMany(_, _, _)
SA_addMany(nodes, cs, items) ==
    IF items = <<>> THEN nodes
    ELSE SA_addMany(SA_add(nodes, cs, Head(items)), cs, Tail(items))

\* removeMany(items)
RECURSIVE SA_removeMany(_, _, _)
SA_removeMany(nodes, cs, items) ==
    IF items = <<>> THEN nodes
    ELSE SA_removeMany(SA_remove(nodes, cs, Head(items)), cs, Tail(items))

\* _nodeMatch(text)
SA_nodeMatch(nodes, cs, text) ==
    LET lcText == IF cs THEN text ELSE ToLowerCase(text)
    IN  BS_range(nodes,
                 KeyCompareSeq(nodes, lcText),
                 [i \in 1..Len(nodes) |->
                    IF HasPrefix(nodes[i].key, lcText) THEN 1 ELSE -1])

\* the value undefined
Undefined == <<>>

\* Set.prototype.add.apply(matches, items): add takes one argument, so the call
\* adds items[0] (undefined when items is empty) and ignores the others.  The
\* Set is kept as the sequence of its members in insertion order.
SetAddApply(matches, items) ==
    LET value == IF Len(items) = 0 THEN Undefined ELSE items[1]
    IN  IF \E i \in 1..Len(matches) : matches[i] = value
        THEN matches
        ELSE Append(matches, value)

RECURSIVE SA_matchFrom(_, _, _)
SA_matchFrom(found, matches, n) ==
    IF n > Len(found)
    THEN matches
    ELSE SA_matchFrom(found, SetAddApply(matches, found[n].items), n + 1)

\* match(text): Array.from(matches)
SA_match(nodes, cs, text) == SA_matchFrom(SA_nodeMatch(nodes, cs, text), <<>>, 1)

\* ---------------------------------------------- SuffixArray: the runs
ItemLists == [1..2 -> Names]

SAInit ==
    /\ nodeArray = <<>>
    /\ caseSensitive \in BOOLEAN
    /\ present = {}
    /\ addCount = 0
    /\ saLast = [op |-> "new", arg |-> <<>>, result |-> <<>>]

SAAdd(item) ==
    /\ addCount < MaxAdds
    /\ nodeArray' = SA_add(nodeArray, caseSensitive, item)
    /\ present' = present \cup {item}
    /\ addCount' = addCount + 1
    /\ saLast' = [op |-> "add", arg |-> <<>>, result |-> <<>>]
    /\ UNCHANGED <<caseSensitive, notSaVars>>

SAAddMany(items) ==
    /\ addCount + Len(items) <= MaxAdds
    /\ nodeArray' = SA_addMany(nodeArray, caseSensitive, items)
    /\ present' = present \cup {items[i] : i \in 1..Len(items)}
    /\ addCount' = addCount + Len(items)
    /\ saLast' = [op |-> "addMany", arg |-> <<>>, result |-> <<>>]
    /\ UNCHANGED <<caseSensitive, notSaVars>>

SARemove(item) ==
    /\ nodeArray' = SA_remove(nodeArray, caseSensitive, item)
    /\ present' = present \ {item}
    /\ saLast' = [op |-> "remove", arg |-> item, result |-> <<>>]
    /\ UNCHANGED <<caseSensitive, addCount, notSaVars>>

SARemoveMany(items) ==
    /\ nodeArray' = SA_removeMany(nodeArray, caseSensitive, items)
    /\ present' = present \ {items[i] : i \in 1..Len(items)}
    /\ saLast' = [op |-> "removeMany", arg |-> <<>>, result |-> <<>>]
    /\ UNCHANGED <<caseSensitive, addCount, notSaVars>>

SAMatch(text) ==
    /\ saLast' = [op |-> "match", arg |-> text,
                  result |-> SA_match(nodeArray, caseSensitive, text)]
    /\ UNCHANGED <<nodeArray, caseSensitive, present, addCount, notSaVars>>

SuffixArrayAdd == \E item \in Names : SAAdd(item)
SuffixArrayAddMany == \E items \in ItemLists : SAAddMany(items)
SuffixArrayRemove == \E item \in Names : SARemove(item)
SuffixArrayRemoveMany == \E items \in ItemLists : SARemoveMany(items)
SuffixArrayMatch == \E text \in Names : SAMatch(text)

SANext ==
    \/ SuffixArrayAdd
    \/ SuffixArrayAddMany
    \/ SuffixArrayRemove
    \/ SuffixArrayRemoveMany
    \/ SuffixArrayMatch

SAIdle ==
    /\ nodeArray = <<>>
    /\ caseSensitive = TRUE
    /\ present = {}
    /\ addCount = 0
    /\ saLast = [op |-> "new", arg |-> <<>>, result |-> <<>>]

BSIdle ==
    /\ sortedArray = <<>>
    /\ bsPc = "idle"
    /\ bsOp = "none"
    /\ bsProbe = NoProbe
    /\ bsLeft = 0
    /\ bsRight = 0
    /\ bsResult = <<>>
    /\ bsRank = 0


\* ------------------------------------------------------- Tree.traverse
\* The nodes of a tree are 1..n, node 1 the root the traversal is called on.
Root == 1

\* the trees of n nodes: every node but the root has a parent of smaller
\* number, and a node's children are in ascending order of number
TreeOf(n, parent) ==
    [t \in 1..n |->
        LET kids == {c \in 2..n : parent[c] = t}
            nth(S, i) == CHOOSE c \in S : Cardinality({d \in S : d < c}) = i - 1
        IN  [i \in 1..Cardinality(kids) |-> nth(kids, i)]]

Trees ==
    UNION {{TreeOf(n, parent) :
              parent \in {f \in [2..n -> 1..n] : \A c \in 2..n : f[c] < c}} :
           n \in 1..MaxNodes}

\* let descend: boolean = false
DescendDefault == FALSE

\* mutant: the loop over the children ignores descend
EntersChildAlways(frame, length) == length # 0 /\ frame.n < length

\* if (this._children.length && descend) for (n = 0; n < l; ++n): whether the
\* activation frame, of a node with length children, calls traverse on child n
EntersChild(frame, length) == length # 0 /\ frame.descend /\ frame.n < length

Frame(node) == [node |-> node, pc |-> "pre", descend |-> DescendDefault, n |-> 0]

Top == stack[Len(stack)]

SetTop(frame) == [stack EXCEPT ![Len(stack)] = frame]

\* ---------------------------------------------------------- MultiVisitor
\* add(v): this._visitors.push([v, null]).  No line of the class assigns
\* _visitors, so it is undefined and the push throws a TypeError.
MV_add(mv, v) ==
    IF mv.thrown THEN mv
    ELSE IF ~mv.defined THEN [mv EXCEPT !.thrown = TRUE]
    ELSE [mv EXCEPT !.list = Append(@, <<v, 0>>)]

RECURSIVE MV_addFrom(_, _, _)
MV_addFrom(mv, visitors, n) ==
    IF n > Len(visitors) \/ mv.thrown
    THEN mv
    ELSE MV_addFrom(MV_add(mv, visitors[n]), visitors, n + 1)

\* constructor(visitors = []): the object starts without _visitors
MV_constructor(visitors) ==
    MV_addFrom([defined |-> FALSE, list |-> <<>>, thrown |-> FALSE], visitors, 1)

\* preOrder, inOrder and postOrder of a MultiVisitor are methods of its
\* prototype, not own properties of the object
MV_hasOwnProperty(name) == FALSE

TraverseIdle ==
    /\ ownPre = FALSE
    /\ ownPost = FALSE
    /\ ownIn = FALSE
    /\ components = <<>>
    /\ mvPc = "none"
    /\ haltAt = 0
    /\ visited = {}
    /\ compTrace = <<>>
    /\ tPc = "idle"
    /\ stack = <<>>
    /\ trace = <<>>

TreeIdle == treeChildren = <<<<>>>> /\ TraverseIdle

\* the visitor is a plain object holding any of the three callbacks, or a
\* MultiVisitor about to be constructed over up to MaxComponents components
TreeInit ==
    /\ treeChildren \in Trees
    /\ \/ /\ ownPre \in BOOLEAN
          /\ ownPost \in BOOLEAN
          /\ ownIn \in BOOLEAN
          /\ components = <<>>
          /\ mvPc = "none"
       \/ /\ ownPre = MV_hasOwnProperty("preOrder")
          /\ ownPost = MV_hasOwnProperty("postOrder")
          /\ ownIn = MV_hasOwnProperty("inOrder")
          /\ components \in UNION {[1..n -> 0..Len(treeChildren)] :
                                    n \in 0..MaxComponents}
          /\ mvPc = "new"
    /\ haltAt = 0
    /\ visited = {}
    /\ compTrace = <<>>
    /\ tPc = "idle"
    /\ stack = <<>>
    /\ trace = <<>>

\* new MultiVisitor(components)
MultiVisitorNew ==
    /\ mvPc = "new"
    /\ mvPc' = IF MV_constructor(components).thrown THEN "thrown" ELSE "constructed"
    /\ UNCHANGED <<treeChildren, ownPre, ownPost, ownIn, components, haltAt,
                   visited, compTrace, tPc, stack, trace, notTreeVars>>

\* root.traverse(visitor) is called
TraverseCall ==
    /\ tPc = "idle"
    /\ mvPc \in {"none", "constructed"}
    /\ tPc' = "running"
    /\ stack' = <<Frame(Root)>>
    /\ visited' = {Root}
    /\ UNCHANGED <<treeChildren, ownPre, ownPost, ownIn, components, mvPc, haltAt,
                   compTrace, trace, notTreeVars>>

\* A callback may trigger visitor.haltTraverse while it runs.  traverse never
\* subscribes to that event nor reads it, so the trigger calls no handler and
\* changes nothing traverse looks at; haltAt remembers the callback.
HaltAfter(halt, made) == IF halt /\ haltAt = 0 THEN Len(made) ELSE haltAt

\* lines 183-187: preOrder is called only when it is an own property of the
\* visitor; answer is what the visitor's preOrder returns, halt whether it
\* triggers haltTraverse
PreOrderStep(answer, halt) ==
    /\ tPc = "running"
    /\ Top.pc = "pre"
    /\ halt => ownPre /\ haltAt = 0
    /\ IF ownPre
       THEN /\ stack' = SetTop([Top EXCEPT !.pc = "children", !.descend = answer])
            /\ trace' = Append(trace, [cb |-> "preOrder", node |-> Top.node,
                                       ret |-> answer])
       ELSE /\ stack' = SetTop([Top EXCEPT !.pc = "children"])
            /\ UNCHANGED trace
    /\ haltAt' = HaltAfter(halt, trace')
    /\ UNCHANGED <<treeChildren, ownPre, ownPost, ownIn, components, mvPc,
                   visited, compTrace, tPc, notTreeVars>>

\* lines 189-193: this._children[n].traverse(visitor)
ChildStep ==
    /\ tPc = "running"
    /\ Top.pc = "children"
    /\ EntersChild(Top, Len(treeChildren[Top.node]))
    /\ stack' = Append(SetTop([Top EXCEPT !.n = @ + 1]),
                       Frame(treeChildren[Top.node][Top.n + 1]))
    /\ visited' = visited \cup {treeChildren[Top.node][Top.n + 1]}
    /\ UNCHANGED <<treeChildren, ownPre, ownPost, ownIn, components, mvPc, haltAt,
                   compTrace, tPc, trace, notTreeVars>>

\* lines 197-201: the children are done or were not entered: postOrder, when
\* it is an own property of the visitor, and return
PostOrderStep(halt) ==
    /\ tPc = "running"
    /\ Top.pc = "children"
    /\ ~EntersChild(Top, Len(treeChildren[Top.node]))
    /\ halt => ownPost /\ haltAt = 0
    /\ trace' = IF ownPost
                THEN Append(trace, [cb |-> "postOrder", node |-> Top.node,
                                    ret |-> FALSE])
                ELSE trace
    /\ stack' = SubSeq(stack, 1, Len(stack) - 1)
    /\ haltAt' = HaltAfter(halt, trace')
    /\ tPc' = IF Len(stack) = 1 THEN "done" ELSE "running"
    /\ UNCHANGED <<treeChildren, ownPre, ownPost, ownIn, components, mvPc,
                   visited, compTrace, notTreeVars>>

TraversePreOrder ==
    \E answer \in BOOLEAN : \E halt \in BOOLEAN : PreOrderStep(answer, halt)

TraversePostOrder == \E halt \in BOOLEAN : PostOrderStep(halt)

TreeNext ==
    \/ MultiVisitorNew
    \/ TraverseCall
    \/ TraversePreOrder
    \/ ChildStep
    \/ TraversePostOrder

\* ------------------------------------------------------------ Tree.find
\* mutant: the children go to the front of the stack
PushFront(stack_, children) == children \o stack_

\* Array.prototype.push.apply(stack, node.children)
PushApply(stack_, children) == stack_ \o children

\* stack.shift(): the first element, and what is left
Shift(stack_) == [node |-> Head(stack_), rest |-> Tail(stack_)]

FindIdle ==
    /\ findPred = {}
    /\ fStart = Root
    /\ fPc = "idle"
    /\ fQueue = <<>>
    /\ fNode = 0
    /\ fEvaluated = <<>>

\* any tree, find called on any of its nodes with any predicate
FindInit ==
    /\ treeChildren \in Trees
    /\ findPred \in SUBSET (1..Len(treeChildren))
    /\ fStart \in 1..Len(treeChildren)
    /\ fPc = "idle"
    /\ fQueue = <<>>
    /\ fNode = 0
    /\ fEvaluated = <<>>

\* find(predicate) calls breadthFirstTraverse: let stack = [this]
TreeFindCall ==
    /\ fPc = "idle"
    /\ fPc' = "running"
    /\ fQueue' = <<fStart>>
    /\ UNCHANGED <<findPred, fStart, fNode, fEvaluated, notFindVars>>

\* one iteration of while (stack.length > 0): shift a node, call the visitor
\* (which evaluates the predicate, keeps the node and returns false when it
\* holds), break on false, else push the node's children
FindVisitStep ==
    /\ fPc = "running"
    /\ fQueue # <<>>
    /\ LET sh == Shift(fQueue)
       IN  /\ fEvaluated' = Append(fEvaluated, sh.node)
           /\ IF sh.node \in findPred
              THEN /\ fNode' = sh.node
                   /\ fQueue' = sh.rest
                   /\ fPc' = "done"
              ELSE /\ fQueue' = PushApply(sh.rest, treeChildren[sh.node])
                   /\ UNCHANGED <<fNode, fPc>>
    /\ UNCHANGED <<findPred, fStart, notFindVars>>

\* the stack is empty: the loop ends and find returns node
FindReturn ==
    /\ fPc = "running"
    /\ fQueue = <<>>
    /\ fPc' = "done"
    /\ UNCHANGED <<findPred, fStart, fQueue, fNode, fEvaluated, notFindVars>>

FindNext == TreeFindCall \/ FindVisitStep \/ FindReturn

\* ------------------------------------------------------------- Debounce
\* An event is [id, kind]: an object without a length property, a non-empty
\* array, or a primitive (a string, a number).
EventKinds == {"object", "array", "primitive"}

NoEvent == [id |-> 0, kind |-> "undefined"]

\* this._handler.apply(this, this._lastEvent): the event is handed to apply
\* as the ARRAY of the arguments.  A primitive is no array-like and apply
\* throws a TypeError; an object without length gives no argument, so the
\* handler receives undefined; an array gives its elements, so the handler
\* receives the first element of the event.
Apply(event) ==
    CASE event.kind = "primitive" -> [thrown |-> TRUE, received |-> <<>>]
      [] event.kind = "array" ->
             [thrown |-> FALSE,
              received |-> <<[id |-> event.id, kind |-> "element"]>>]
      [] OTHER -> [thrown |-> FALSE, received |-> <<NoEvent>>]

\* later(): the timer callback leaves this._timer alone
TimerAfterExpiry(id) == id

HandleCount == Cardinality({i \in 1..Len(dbOps) : dbOps[i] = "handle"})

DebounceIdle ==
    /\ dbTimer = 0
    /\ dbPending = {}
    /\ dbLastEvent = NoEvent
    /\ dbCalls = <<>>
    /\ dbThrown = 0
    /\ dbOps = <<>>
    /\ dbBefore = [pending |-> {}, calls |-> <<>>]

\* new Debounce(handler, wait)
DebounceInit == DebounceIdle

DebounceStep(op) ==
    /\ Len(dbOps) < MaxDebounceOps
    /\ dbOps' = Append(dbOps, op)
    /\ dbBefore' = [pending |-> dbPending, calls |-> dbCalls]
    /\ UNCHANGED notDbVars

\* handle(event): keep the event, interupt(), set a new timer
DebounceHandle(kind) ==
    /\ DebounceStep("handle")
    /\ dbLastEvent' = [id |-> HandleCount + 1, kind |-> kind]
    /\ dbTimer' = HandleCount + 1
    /\ dbPending' = (dbPending \ {dbTimer}) \cup {HandleCount + 1}
    /\ UNCHANGED <<dbCalls, dbThrown>>

\* interupt(): clearTimeout(this._timer); this._timer = 0
DebounceInterupt ==
    /\ DebounceStep("interupt")
    /\ dbPending' = dbPending \ {dbTimer}
    /\ dbTimer' = 0
    /\ UNCHANGED <<dbLastEvent, dbCalls, dbThrown>>

\* flush(): if (this._timer) { interupt(); handler.apply(this, lastEvent) }
DebounceFlush ==
    /\ DebounceStep("flush")
    /\ IF dbTimer # 0
       THEN /\ dbPending' = dbPending \ {dbTimer}
            /\ dbTimer' = 0
            /\ dbCalls' = dbCalls \o Apply(dbLastEvent).received
            /\ dbThrown' = dbThrown + (IF Apply(dbLastEvent).thrown THEN 1 ELSE 0)
       ELSE UNCHANGED <<dbPending, dbTimer, dbCalls, dbThrown>>
    /\ UNCHANGED dbLastEvent

\* the delay of a set timer elapses: the runtime runs later()
TimerExpiry ==
    /\ DebounceStep("expiry")
    /\ \E id \in dbPending :
           /\ dbPending' = dbPending \ {id}
           /\ dbTimer' = IF dbTimer = id THEN TimerAfterExpiry(id) ELSE dbTimer
    /\ dbCalls' = dbCalls \o Apply(dbLastEvent).received
    /\ dbThrown' = dbThrown + (IF Apply(dbLastEvent).thrown THEN 1 ELSE 0)
    /\ UNCHANGED dbLastEvent

DBHandle == \E kind \in EventKinds : DebounceHandle(kind)

DBNext == DBHandle \/ DebounceInterupt \/ DebounceFlush \/ TimerExpiry

\* ---------------------------------------------------------------- Event
\* subscribed.splice(index, 1): removes the element at index when there is
\* one, nothing when index is at or past the length
SpliceOne(arr, index) == IF index < Len(arr) THEN RemoveAt(arr, index) ELSE arr

\* new Event()
EventInit ==
    /\ evSubscribed = <<>>
    /\ evIndex = <<>>
    /\ evUnsubscribed = {}
    /\ evUnsubCalls = 0
    /\ evLast = "new"
    /\ evInvoked = <<>>

EventIdle == EventInit

\* subscribe(handler): push, capture index = length - 1, return the closure
EventSubscribe ==
    /\ Len(evIndex) < MaxSubscriptions
    /\ evSubscribed' = Append(evSubscribed, Len(evIndex) + 1)
    /\ evIndex' = Append(evIndex, Len(evSubscribed') - 1)
    /\ evLast' = "subscribe"
    /\ UNCHANGED <<evUnsubscribed, evUnsubCalls, evInvoked, notEvVars>>

\* the function that subscribe returned for handler h is called
Unsubscribe(h) ==
    /\ evUnsubCalls < MaxUnsubscribes
    /\ evSubscribed' = SpliceOne(evSubscribed, evIndex[h])
    /\ evUnsubscribed' = evUnsubscribed \cup {h}
    /\ evUnsubCalls' = evUnsubCalls + 1
    /\ evLast' = "unsubscribe"
    /\ UNCHANGED <<evIndex, evInvoked, notEvVars>>

EventUnsubscribe == \E h \in 1..Len(evIndex) : Unsubscribe(h)

\* trigger(args): every handler of _subscribed, in order
EventTrigger ==
    /\ evInvoked' = evSubscribed
    /\ evLast' = "trigger"
    /\ UNCHANGED <<evSubscribed, evIndex, evUnsubscribed, evUnsubCalls, notEvVars>>

EventNext == EventSubscribe \/ EventUnsubscribe \/ EventTrigger

\* --------------------------------------- SymbolReader and name resolution
\* A name is a sequence of segments; a written name also tells whether it
\* begins with the qualification marker (a leading backslash).
Segments == {"Foo", "Baz", "Bar"}

Namespaces == {<<>>, <<"Wat">>}

SegmentNames == UNION {[1..n -> Segments] : n \in 1..MaxSegments}

WrittenNames == [fq : BOOLEAN, segs : SegmentNames]

Documents ==
    [namespace : Namespaces, use : SegmentNames, class : Segments,
     trait : WrittenNames]

Last(name) == name[Len(name)]

Symbol(kind, name) == [kind |-> kind, name |-> name, associated |-> <<>>]

\* mutant: the aliases are not consulted
ResolveNoAlias(name, namespace, aliases) ==
    IF name.fq THEN name.segs ELSE namespace \o name.segs

\* the resolution rules, in order: a name that begins with the qualification
\* marker is used verbatim; a name whose first segment matches a declared
\* alias gets the alias's target in place of that segment; any other name
\* is prefixed with the active namespace
Resolve(name, namespace, aliases) ==
    IF name.fq THEN name.segs
    ELSE IF \E a \in aliases : a.alias = Head(name.segs)
    THEN (CHOOSE a \in aliases : a.alias = Head(name.segs)).target
             \o Tail(name.segs)
    ELSE namespace \o name.segs

StringToTraitSymbolStub(fqn) == [kind |-> "Trait", name |-> fqn]

SymbolReaderIdle ==
    /\ srSrc = [namespace |-> <<>>, use |-> <<"Foo">>, class |-> "Foo",
                trait |-> [fq |-> FALSE, segs |-> <<"Foo">>]]
    /\ srPc = "done"
    /\ srNamespace = <<>>
    /\ srAliases = {}
    /\ srChildren = <<>>

SymbolReaderInit ==
    /\ srSrc \in Documents
    /\ srPc = "namespace"
    /\ srNamespace = <<>>
    /\ srAliases = {}
    /\ srChildren = <<>>

\* namespace N; (a document in the global namespace has no such statement)
NamespaceDefinition ==
    /\ srPc = "namespace"
    /\ srPc' = "use"
    /\ srNamespace' = srSrc.namespace
    /\ srChildren' = IF srSrc.namespace = <<>>
                     THEN srChildren
                     ELSE Append(srChildren, Symbol("Namespace", srSrc.namespace))
    /\ UNCHANGED <<srSrc, srAliases, notSrVars>>

\* use U; declares the last segment of U as an alias of U and adds the
\* imported stub, a Class symbol of the alias's name
NamespaceUseClause ==
    /\ srPc = "use"
    /\ srPc' = "class"
    /\ srAliases' = srAliases \cup {[alias |-> Last(srSrc.use), target |-> srSrc.use]}
    /\ srChildren' = Append(srChildren, Symbol("Class", <<Last(srSrc.use)>>))
    /\ UNCHANGED <<srSrc, srNamespace, notSrVars>>

\* class C {: a Class symbol named by C prefixed with the active namespace
ClassDeclaration ==
    /\ srPc = "class"
    /\ srPc' = "trait"
    /\ srChildren' = Append(srChildren, Symbol("Class", srNamespace \o <<srSrc.class>>))
    /\ UNCHANGED <<srSrc, srNamespace, srAliases, notSrVars>>

\* use T; inside the class: a Trait stub of the resolved name is added to the
\* associated list of the class
TraitUseClause ==
    /\ srPc = "trait"
    /\ srPc' = "done"
    /\ srChildren' =
           [srChildren EXCEPT ![Len(srChildren)].associated =
               Append(@, StringToTraitSymbolStub(
                             Resolve(srSrc.trait, srNamespace, srAliases)))]
    /\ UNCHANGED <<srSrc, srNamespace, srAliases, notSrVars>>

SymbolReaderNext ==
    NamespaceDefinition \/ NamespaceUseClause \/ ClassDeclaration \/ TraitUseClause

\* ------------------------------- Tree.addChild, addChildren, removeChild
\* the nodes constructed for the run
EditNodes == 1..MaxEditNodes

\* the parent field after removeChild (null), and after construction, where
\* the constructor leaves it unassigned (undefined); neither is a node
NullParent == 0
UndefinedParent == NullParent - 1

\* the nodes as records of the two fields the operations touch:
\* t.children[n] is n._children, t.parent[n] is n.parent

\* p.addChild(child): push the child, point its parent at p
Tree_addChild(t, p, child) ==
    [children |-> [t.children EXCEPT ![p] = Append(@, child)],
     parent   |-> [t.parent EXCEPT ![child] = p]]

\* the loop of p.addChildren(children) from index n on (n is 1-based here)
RECURSIVE Tree_addChildrenFrom(_, _, _, _)
Tree_addChildrenFrom(t, p, children, n) ==
    IF n > Len(children) THEN t
    ELSE Tree_addChildrenFrom(Tree_addChild(t, p, children[n]), p, children, n + 1)

Tree_addChildren(t, p, children) == Tree_addChildrenFrom(t, p, children, 1)

\* p.removeChild(child): splice out the first occurrence of the child and
\* null its parent; nothing when p._children does not hold it
Tree_removeChild(t, p, child) ==
    LET i == IndexOf(t.children[p], child)
    IN  IF i # -1
        THEN [children |-> [t.children EXCEPT ![p] = RemoveAt(@, i)],
              parent   |-> [t.parent EXCEPT ![child] = NullParent]]
        ELSE t

\* the nodes as the variables hold them
EditTree == [children |-> edChildren, parent |-> edParent]

\* new Tree(value) for every node: no children, parent never assigned
TreeEditInit ==
    /\ edChildren = [n \in EditNodes |-> <<>>]
    /\ edParent = [n \in EditNodes |-> UndefinedParent]
    /\ edOps = 0

TreeEditIdle == TreeEditInit

\* the state after a call that left the nodes as t
TreeEdited(t) ==
    /\ edOps < MaxEditOps
    /\ edOps' = edOps + 1
    /\ edChildren' = t.children
    /\ edParent' = t.parent
    /\ UNCHANGED notEdVars

TreeAddChild ==
    \E p \in EditNodes, child \in EditNodes :
        TreeEdited(Tree_addChild(EditTree, p, child))

TreeAddChildren ==
    \E p \in EditNodes :
        \E children \in UNION {[1..n -> EditNodes] : n \in 0..MaxArgLen} :
            TreeEdited(Tree_addChildren(EditTree, p, children))

TreeRemoveChild ==
    \E p \in EditNodes, child \in EditNodes :
        TreeEdited(Tree_removeChild(EditTree, p, child))

TreeEditNext == TreeAddChild \/ TreeAddChildren \/ TreeRemoveChild

InitTreeEdit ==
    /\ BSIdle /\ SAIdle /\ TreeIdle /\ FindIdle /\ DebounceIdle /\ EventIdle
    /\ SymbolReaderIdle /\ TreeEditInit

SpecTreeEdit == InitTreeEdit /\ [][TreeEditNext]_vars

InitSymbolReader ==
    /\ BSIdle /\ SAIdle /\ TreeIdle /\ FindIdle /\ DebounceIdle /\ EventIdle
    /\ SymbolReaderInit /\ TreeEditIdle

SpecSymbolReader == InitSymbolReader /\ [][SymbolReaderNext]_vars

InitEvent ==
    /\ BSIdle /\ SAIdle /\ TreeIdle /\ FindIdle /\ DebounceIdle /\ EventInit
    /\ SymbolReaderIdle /\ TreeEditIdle

SpecEvent == InitEvent /\ [][EventNext]_vars

InitDebounce ==
    /\ BSIdle /\ SAIdle /\ TreeIdle /\ FindIdle /\ DebounceInit /\ EventIdle
    /\ SymbolReaderIdle /\ TreeEditIdle

SpecDebounce == InitDebounce /\ [][DBNext]_vars

InitFind ==
    /\ BSIdle /\ SAIdle /\ TraverseIdle /\ FindInit /\ DebounceIdle /\ EventIdle
    /\ SymbolReaderIdle /\ TreeEditIdle

SpecFind == InitFind /\ [][FindNext]_vars

InitTree ==
    /\ BSIdle /\ SAIdle /\ TreeInit /\ FindIdle /\ DebounceIdle /\ EventIdle
    /\ SymbolReaderIdle /\ TreeEditIdle

SpecTree == InitTree /\ [][TreeNext]_vars

InitSuffixArray ==
    /\ BSIdle /\ SAInit /\ TreeIdle /\ FindIdle /\ DebounceIdle /\ EventIdle
    /\ SymbolReaderIdle /\ TreeEditIdle

SpecSuffixArray == InitSuffixArray /\ [][SANext]_vars

InitBinarySearch ==
    /\ BSInit /\ SAIdle /\ TreeIdle /\ FindIdle /\ DebounceIdle /\ EventIdle
    /\ SymbolReaderIdle /\ TreeEditIdle

SpecBinarySearch == InitBinarySearch /\ [][BSNext]_vars

\* the same runs; the loop of _search is synchronous code and always takes
\* its next iteration
SpecBinarySearchFair ==
    SpecBinarySearch /\ WF_vars(FindSearchStep)

\* ------------------------------------------------ claims: BinarySearch
Elems(arr) == {arr[i] : i \in 1..Len(arr)}

\* the number of elements strictly less than k
LowerBound(arr, k) == Cardinality({i \in 1..Len(arr) : arr[i] < k})

CountEqual(arr, k) == Cardinality({i \in 1..Len(arr) : arr[i] = k})

RankReturned == bsOp = "rank" /\ bsPc = "done"

\* C5 as stated: on every ascending-sorted sequence, duplicates allowed, rank
\* returns the lower bound, the number of elements strictly less than the probe.
C5_RankIsLowerBound ==
    RankReturned => bsRank = LowerBound(sortedArray, bsProbe.k)

\* C5 amended: rank returns an index at which inserting the probe keeps the
\* sequence sorted: the index of an element equal to the probe when there is
\* one, the lower bound when there is none; it is the lower bound whenever at
\* most one element equals the probe.
C5_RankKeepsSorted ==
    RankReturned =>
        LET k == bsProbe.k
            lb == LowerBound(sortedArray, k)
            eq == CountEqual(sortedArray, k)
        IN  /\ bsRank \in 0..Len(sortedArray)
            /\ \A i \in 1..Len(sortedArray) :
                   /\ i <= bsRank => sortedArray[i] <= k
                   /\ i > bsRank => sortedArray[i] >= k
            /\ eq >= 1 => sortedArray[bsRank + 1] = k
            /\ eq <= 1 => bsRank = lb

\* C5 witness: rank returned on a sequence holding the probe more than once,
\* with an index that is not the lower bound
C5_RankAmongDuplicates ==
    /\ RankReturned
    /\ CountEqual(sortedArray, bsProbe.k) >= 2
    /\ bsRank # LowerBound(sortedArray, bsProbe.k)

\* C6: find returns an element equal to the probe exactly when the sequence
\* holds one and null otherwise, and the loop of _search always reaches its
\* break, on the empty sequence too.
C6_FindCorrectAndTerminates ==
    /\ [](bsOp = "find" /\ bsPc = "done" =>
            bsResult = IF bsProbe.k \in Elems(sortedArray)
                       THEN <<bsProbe.k>> ELSE <<>>)
    /\ (bsPc = "search") ~> (bsPc = "done")

\* C6 witness: find returned the matching element of a sequence of three or
\* more elements after moving the left end of the interval
C6_FindFound ==
    /\ bsOp = "find" /\ bsPc = "done"
    /\ Len(sortedArray) >= 3
    /\ bsResult = <<bsProbe.k>>
    /\ bsLeft > 0

\* C7: range returns exactly the run of elements within both bounds, and the
\* empty sequence when no element lies within them.
C7_RangeIsRunWithinBounds ==
    bsOp = "range" /\ bsPc = "done" =>
        LET within(n) == bsProbe.lo <= n /\ n <= bsProbe.hi
        IN  bsResult = SelectSeq(sortedArray, within)

\* ------------------------------------------------- claims: SuffixArray
Keys(item) == Elems(SuffixDelegate(item))

MatchReturned == saLast.op = "match"

\* C1: in a case-sensitive index match(q) returns every item added and not
\* removed one of whose keys has q as a prefix.
C1_MatchReturnsEveryPrefixedItem ==
    MatchReturned /\ caseSensitive =>
        \A item \in present :
            (\E key \in Keys(item) : HasPrefix(key, saLast.arg))
                => item \in Elems(saLast.result)

\* C2: match(q) returns exactly the items of the nodes whose key has the
\* case-normalized q as a prefix, each once.
C2_MatchIsUnionOfPrefixedNodes ==
    MatchReturned =>
        LET lcText == IF caseSensitive THEN saLast.arg ELSE ToLowerCase(saLast.arg)
            prefixed == {i \in 1..Len(nodeArray) : HasPrefix(nodeArray[i].key, lcText)}
        IN  /\ Elems(saLast.result) = UNION {Elems(nodeArray[i].items) : i \in prefixed}
            /\ Cardinality(Elems(saLast.result)) = Len(saLast.result)

\* C3: in a case-insensitive index an item added under key k is returned by
\* match(q) whenever lower-cased q is a prefix of lower-cased k.
C3_InsensitiveMatchIgnoresCase ==
    MatchReturned /\ ~caseSensitive =>
        \A item \in present :
            (\E key \in Keys(item) :
                HasPrefix(ToLowerCase(key), ToLowerCase(saLast.arg)))
                => item \in Elems(saLast.result)

\* C4: after remove(item) no node holds the item, no match query returns it,
\* and no node with an empty item-set is left.
C4_RemovedItemIsGone ==
    saLast.op = "remove" =>
        /\ \A i \in 1..Len(nodeArray) :
               /\ saLast.arg \notin Elems(nodeArray[i].items)
               /\ nodeArray[i].items # <<>>
        /\ \A text \in Names :
               saLast.arg \notin Elems(SA_match(nodeArray, caseSensitive, text))

\* C8: the node sequence is always in strictly ascending collation order of
\* key, so sorted ascending and without two nodes of the same key.
C8_NodesStrictlyAscending ==
    \A i \in 1..Len(nodeArray) : \A j \in 1..Len(nodeArray) :
        i < j => CollatorCompare(nodeArray[i].key, nodeArray[j].key) < 0

\* how often item occurs among the items of a node
Multiplicity(items, item) ==
    Cardinality({i \in 1..Len(items) : items[i] = item})

\* two indexes with the same sequence of keys and, under each key, the same
\* items with the same multiplicities
SameIndex(a, b) ==
    /\ Len(a) = Len(b)
    /\ \A i \in 1..Len(a) :
           /\ a[i].key = b[i].key
           /\ \A item \in Names :
                  Multiplicity(a[i].items, item) = Multiplicity(b[i].items, item)

\* C21: in every state reached by add and remove calls, with either
\* case-sensitivity setting and for every item, add(item) followed at once by
\* remove(item) gives back the index as it was: the same keys in the same
\* order and under each key the same items with the same multiplicities.
C21_AddThenRemoveRestores ==
    \A item \in Names :
        SameIndex(SA_remove(SA_add(nodeArray, caseSensitive, item),
                            caseSensitive, item),
                  nodeArray)

\* -------------------------------------------------- claims: Tree.traverse
Nodes == 1..Len(treeChildren)

ParentOf(c) == CHOOSE t \in Nodes : c \in Elems(treeChildren[t])

RECURSIVE AncestorsOf(_)
AncestorsOf(d) ==
    IF d = Root THEN {} ELSE {ParentOf(d)} \cup AncestorsOf(ParentOf(d))

\* the nodes of the subtree of t, t included
Subtree(t) == {d \in Nodes : d = t \/ t \in AncestorsOf(d)}

Called(cb, t) == {i \in 1..Len(trace) : trace[i].cb = cb /\ trace[i].node = t}

Descended(t) == \E i \in Called("preOrder", t) : trace[i].ret

\* C9: preOrder of a node comes before every callback on its descendants and
\* postOrder after all of them, children are visited in index order, and no
\* callback is made below a node whose preOrder returned false.
C9_TraverseIsDepthFirst ==
    /\ \A j \in 1..Len(trace) : \A t \in AncestorsOf(trace[j].node) :
           /\ \E i \in Called("preOrder", t) : i < j /\ trace[i].ret
           /\ \A i \in Called("postOrder", t) : j < i
    /\ \A t \in Nodes :
           /\ Cardinality(Called("preOrder", t)) <= 1
           /\ Cardinality(Called("postOrder", t)) <= 1
           /\ \A i \in Called("preOrder", t) : \A j \in Called("postOrder", t) : i < j
           /\ \A x \in 1..Len(treeChildren[t]) : \A y \in 1..Len(treeChildren[t]) :
                  x < y =>
                      \A i \in 1..Len(trace) : \A j \in 1..Len(trace) :
                          /\ trace[i].node \in Subtree(treeChildren[t][x])
                          /\ trace[j].node \in Subtree(treeChildren[t][y])
                          => i < j
    /\ tPc = "done" =>
           \A t \in Nodes :
               LET entered == t = Root \/ Descended(ParentOf(t))
               IN  /\ entered /\ ownPre => Called("preOrder", t) # {}
                   /\ entered /\ ownPost => Called("postOrder", t) # {}
                   /\ ~entered => Called("preOrder", t) \cup Called("postOrder", t) = {}

\* C9 witness: a finished traversal with both callbacks in which a node with
\* two or more children was descended into and a node with children was not
C9_DescendedAndPruned ==
    /\ tPc = "done" /\ ownPre /\ ownPost
    /\ \E t \in Nodes : Descended(t) /\ Len(treeChildren[t]) >= 2
    /\ \E t \in Nodes : /\ Called("preOrder", t) # {}
                        /\ ~Descended(t)
                        /\ treeChildren[t] # <<>>

\* C10: a visitor that omits preOrder is traversed as if preOrder returned
\* true everywhere: every node of the tree gets the postOrder it defines.
C10_NoPreOrderVisitsEveryNode ==
    tPc = "done" /\ ~ownPre /\ ownPost =>
        \A t \in Nodes : Called("postOrder", t) # {}

\* the entries of the trace made on the nodes of a set
CallsOn(nodes) == {j \in 1..Len(trace) : trace[j].node \in nodes}

\* the inOrder(t, index) calls of the trace
CalledInOrder(t, index) ==
    {j \in 1..Len(trace) : /\ trace[j].cb = "inOrder"
                            /\ trace[j].node = t
                            /\ trace[j].index = index}

\* C11: with a visitor that defines inOrder, every node whose children were
\* traversed gets exactly one inOrder call per child boundary: after all the
\* callbacks of child i, before those of child i+1, with afterChildIndex i.
C11_InOrderOncePerChildBoundary ==
    tPc = "done" /\ ownIn =>
        \A t \in Nodes :
            Elems(treeChildren[t]) \cap visited # {} =>
                \A x \in 1..(Len(treeChildren[t]) - 1) :
                    /\ Cardinality(CalledInOrder(t, x - 1)) = 1
                    /\ \A j \in CalledInOrder(t, x - 1) :
                           /\ \A i \in CallsOn(Subtree(treeChildren[t][x])) : i < j
                           /\ \A i \in CallsOn(Subtree(treeChildren[t][x + 1])) : j < i

\* C12: once a callback has triggered haltTraverse, no further callback is
\* made: the callback that triggered it is the last of the trace.
C12_NoCallbackAfterHalt ==
    haltAt # 0 => Len(trace) = haltAt

\* the program has run to its end: the traversal returned, or the
\* construction of the MultiVisitor threw
Ended == tPc = "done" \/ mvPc = "thrown"

CompCalled(c, cb, t) ==
    {j \in 1..Len(compTrace) : /\ compTrace[j].comp = c
                                /\ compTrace[j].cb = cb
                                /\ compTrace[j].node = t}

\* C13: a component of a MultiVisitor that declines the descent at the root
\* gets no callback on a proper descendant of the root and is active again
\* from postOrder(root) on: it receives postOrder(root).
C13_DecliningComponentReactivates ==
    Ended /\ mvPc # "none" =>
        \A c \in 1..Len(components) :
            components[c] = Root =>
                /\ CompCalled(c, "postOrder", Root) # {}
                /\ \A j \in 1..Len(compTrace) :
                       compTrace[j].comp = c =>
                           compTrace[j].node \notin Subtree(Root) \ {Root}

\* C14: traversing with a MultiVisitor, the children of the root are entered
\* if and only if at least one component answers true at the root.
C14_DescendIsOrOfComponents ==
    Ended /\ mvPc # "none" /\ treeChildren[Root] # <<>> =>
        (treeChildren[Root][1] \in visited
            <=> \E c \in 1..Len(components) : components[c] # Root)

\* the nodes of depth k below t, left to right
RECURSIVE Level(_, _)
Level(t, k) ==
    IF k = 0 THEN <<t>>
    ELSE LET up == Level(t, k - 1)
             cat[i \in 0..Len(up)] ==
                 IF i = 0 THEN <<>> ELSE cat[i - 1] \o treeChildren[up[i]]
         IN  cat[Len(up)]

\* the subtree of t in breadth-first order: t, then level by level
RECURSIVE LevelsFrom(_, _)
LevelsFrom(t, k) ==
    IF Level(t, k) = <<>> THEN <<>> ELSE Level(t, k) \o LevelsFrom(t, k + 1)

BreadthFirstOrder(t) == LevelsFrom(t, 0)

\* C15: find returns the first node of the breadth-first order of the
\* subtree that satisfies the predicate and evaluates the predicate exactly
\* on the nodes up to and including it; when none satisfies it, find returns
\* undefined having evaluated the predicate on the whole subtree.
C15_FindIsFirstBreadthFirst ==
    LET order == BreadthFirstOrder(fStart)
        hits == {i \in 1..Len(order) : order[i] \in findPred}
    IN  /\ fPc # "idle" =>
               /\ Len(fEvaluated) <= Len(order)
               /\ fEvaluated = SubSeq(order, 1, Len(fEvaluated))
        /\ fPc = "done" =>
               IF hits = {}
               THEN fNode = 0 /\ fEvaluated = order
               ELSE LET first == CHOOSE i \in hits : \A j \in hits : i <= j
                    IN  fNode = order[first] /\ Len(fEvaluated) = first

\* C15 witness: find returned a node of depth two or more after evaluating
\* the predicate on a whole level of two nodes that do not satisfy it
C15_FoundBelowAWiderLevel ==
    /\ fPc = "done"
    /\ fNode # 0
    /\ Len(Level(fStart, 1)) >= 2
    /\ fNode \in Elems(Level(fStart, 2))

\* the run so far is n >= 1 handle calls, none of whose delays elapsed
OnlyHandles == dbOps # <<>> /\ \A i \in 1..Len(dbOps) : dbOps[i] = "handle"

\* the run is n >= 1 such handle calls and then the expiry of the delay
HandlesThenExpiry ==
    /\ Len(dbOps) >= 2
    /\ dbOps[Len(dbOps)] = "expiry"
    /\ \A i \in 1..(Len(dbOps) - 1) : dbOps[i] = "handle"

\* C16: during handle calls that each arrive before the delay has elapsed the
\* handler is not invoked, and when the delay then elapses it is invoked
\* exactly once, with the event of the last handle call.
C16_CoalescedToLatestEvent ==
    /\ OnlyHandles => dbCalls = <<>>
    /\ HandlesThenExpiry => dbCalls = <<dbLastEvent>> /\ dbLastEvent.id = HandleCount

\* the last step was a flush that found the timer of the last event set
FlushedWhilePending ==
    /\ dbOps # <<>>
    /\ dbOps[Len(dbOps)] = "flush"
    /\ dbBefore.pending # {}

\* C17: a flush while an event is pending invokes the handler at once with
\* the most recent event and leaves no timer set.
C17_FlushDeliversLatestEvent ==
    FlushedWhilePending =>
        /\ dbCalls = Append(dbBefore.calls, dbLastEvent)
        /\ dbPending = {}

\* C20: the handler is never invoked more often than handle was called, and
\* a flush that finds no event pending invokes nothing.
C20_NoEventDeliveredTwice ==
    /\ Len(dbCalls) <= HandleCount
    /\ dbOps # <<>> /\ dbOps[Len(dbOps)] = "flush" /\ dbBefore.pending = {} =>
           dbCalls = dbBefore.calls

\* the handlers subscribed and not unsubscribed, in subscription order
RECURSIVE StillSubscribed(_)
StillSubscribed(h) ==
    IF h = 0 THEN <<>>
    ELSE StillSubscribed(h - 1) \o (IF h \in evUnsubscribed THEN <<>> ELSE <<h>>)

\* C19: trigger invokes exactly the handlers that were subscribed and whose
\* own unsubscribe function has not been called, once each, in subscription
\* order.
C19_TriggerInvokesTheSubscribed ==
    evLast = "trigger" => evInvoked = StillSubscribed(Len(evIndex))

\* C18: when the trait name of the trait-use clause is written without the
\* qualification marker and its first segment is the alias that the use
\* declaration introduced, the class symbol is named by the class name
\* prefixed with the active namespace and its associated list holds the stub
\* {Trait, target of the alias (followed by the rest of the name)}.
C18_TraitResolvedThroughAlias ==
    /\ srPc = "done"
    /\ ~srSrc.trait.fq
    /\ Head(srSrc.trait.segs) = Last(srSrc.use)
    => LET class == srChildren[Len(srChildren)]
       IN  /\ class.kind = "Class"
           /\ class.name = srSrc.namespace \o <<srSrc.class>>
           /\ class.associated =
                  <<[kind |-> "Trait",
                     name |-> srSrc.use \o Tail(srSrc.trait.segs)]>>

\* C18 witness: namespace Wat; use Foo\Baz; class Bar { use Baz; } was read
C18_WatBarUsesFooBaz ==
    /\ srPc = "done"
    /\ srSrc = [namespace |-> <<"Wat">>, use |-> <<"Foo", "Baz">>,
                class |-> "Bar", trait |-> [fq |-> FALSE, segs |-> <<"Baz">>]]
    /\ srChildren =
           <<Symbol("Namespace", <<"Wat">>),
             Symbol("Class", <<"Baz">>),
             [kind |-> "Class", name |-> <<"Wat", "Bar">>,
              associated |-> <<[kind |-> "Trait", name |-> <<"Foo", "Baz">>]>>]>>

\* ------------------------------------- claims: Tree child operations
\* the places <<p, i>> at which node c occurs in a children sequence
Occurrences(c) ==
    {pi \in EditNodes \X (1..(MaxEditOps * MaxArgLen)) :
         /\ pi[2] <= Len(edChildren[pi[1]])
         /\ edChildren[pi[1]][pi[2]] = c}

\* C22: after any sequence of addChild, addChildren and removeChild calls on
\* a set of nodes, a node c occurs in the children sequence of a node p if
\* and only if c.parent is p, so that every node occurs in the children
\* sequence of at most one node and there at most once.
C22_ChildrenAgreeWithParent ==
    /\ \A p \in EditNodes, c \in EditNodes :
           (IndexOf(edChildren[p], c) # -1) <=> (edParent[c] = p)
    /\ \A c \in EditNodes : Cardinality(Occurrences(c)) <= 1

====
